---- MODULE Spec2Model ----
(***************************************************************************)
(* The igdbapi client core (src/igdbapi/core.py): the singleton APIClient, *)
(* the APIResponse wrapper and the APIObject query builder, as a state     *)
(* machine whose actions are the public calls a program can make.          *)
(***************************************************************************)
EXTENDS Integers, Sequences, FiniteSets, TLC

VARIABLES
    singleton,  \* TRUE once the Singleton decorator holds an APIClient instance
    client,     \* the fields of that instance (_api_key, _command, _data, _headers)
    objs,       \* the APIObject instances: cls, _command, _id
    sent,       \* the most recent POST put on the wire: <<>> or <<request>>
    options,    \* the keyword arguments the calling program holds ready for find()
    last        \* the most recent call: its arguments, the invocations of
                \* APIClient.call it made, what it POSTed and printed, the remote
                \* reply it consumed and its outcome

vars == <<singleton, client, objs, sent, options, last>>

----------------------------------------------------------------------------
(* Bounds of the model *)

\* ids a derived entity may carry are 0 .. MaxId (and -1)
MaxId == 2
\* limits up to MAX_LIMIT + MaxOver are passed to find()
MaxOver == 2
\* the remote answers with arrays of 0 .. MaxResults records
MaxResults == 2
\* a direct call() is given 0 .. MaxClauses clauses
MaxClauses == 2

----------------------------------------------------------------------------
(* Python values: None, int, str and list are kept apart by a tag, so that *)
(* "is None", truthiness and str.format() are computed as Python does.     *)

PyNone == [t |-> "None"]
PyInt(n) == [t |-> "int", n |-> n]
PyStr(s) == [t |-> "str", s |-> s]
PyList(q) == [t |-> "list", items |-> q]
Namespace(d) == [t |-> "Namespace", attrs |-> d]

\* '{x}'.format(...): None prints as "None", an int in decimal, a str as itself
Format(x) ==
    CASE x.t = "None" -> "None"
      [] x.t = "int" -> ToString(x.n)
      [] OTHER -> x.s

\* sep.join(q) for a sequence of strings
RECURSIVE Join(_, _)
Join(q, sep) ==
    IF Len(q) = 0 THEN ""
    ELSE IF Len(q) = 1 THEN q[1]
    ELSE q[1] \o sep \o Join(Tail(q), sep)

Return(v) == [kind |-> "return", value |-> v]
Raise(exc, msg) == [kind |-> "raise", exc |-> exc, msg |-> msg]

----------------------------------------------------------------------------
(* Program constants *)

V3_ENDPOINT == "https://api-v3.igdb.com/"
MAX_LIMIT == 500

----------------------------------------------------------------------------
(* The remote side: a reply is an HTTP status and a JSON text.  The text   *)
(* is kept as its syntax tree; json2obj is what turns it into objects.     *)

JNull == [j |-> "null"]
JNum(n) == [j |-> "number", n |-> n]
JObj(d) == [j |-> "object", fields |-> d]
JArr(q) == [j |-> "array", items |-> q]

Record(n) == JObj([id |-> JNum(n)])
Records(n) == JArr([i \in 1..n |-> Record(i)])
ErrorPayload == JObj([error |-> JNum(1)])

\* json.loads(data, object_hook=Namespace): objects become Namespaces,
\* arrays stay lists, scalars stay scalars
RECURSIVE json2obj(_)
json2obj(data) ==
    CASE data.j = "null" -> PyNone
      [] data.j = "number" -> PyInt(data.n)
      [] data.j = "object" ->
            Namespace([k \in DOMAIN data.fields |-> json2obj(data.fields[k])])
      [] data.j = "array" ->
            PyList([i \in 1..Len(data.items) |-> json2obj(data.items[i])])

\* errors.check(response): a non-success status or a remote error payload
ErrorsCheck(reply) ==
    \/ reply.status \notin 200..299
    \/ (reply.text.j = "object" /\ "error" \in DOMAIN reply.text.fields)

APIResponse(text) == [t |-> "APIResponse", _response |-> text]

json_response(resp) == json2obj(resp._response)

as_collection(resp) == Return(json_response(resp))

\* (a variant that hands back the first record of several)
as_single_result_First(resp) ==
    LET json == json_response(resp) IN
    IF json.t = "list" THEN
        IF Len(json.items) = 0 THEN Return(PyNone) ELSE Return(json.items[1])
    ELSE Return(json)

as_single_result(resp) ==
    LET json == json_response(resp) IN
    IF json.t = "list" THEN
        IF Len(json.items) = 0 THEN Return(PyNone)
        ELSE IF Len(json.items) = 1 THEN Return(json.items[1])
        ELSE Raise("APIError",
                   "Expected single result, found " \o ToString(Len(json.items)))
    ELSE Return(json)

----------------------------------------------------------------------------
(* APIClient *)

\* (a variant that accepts a missing key)
APIClientInit_NoCheck(api_key) ==
    [obj |-> [_api_key |-> api_key,
              _command |-> PyNone,
              _data |-> PyNone,
              _headers |-> [Accept |-> "application/json; charset=UTF-8",
                            user_key |-> api_key]],
     outcome |-> Return(PyNone)]

\* APIClient.__init__: every field is assigned before the missing key raises
APIClientInit(api_key) ==
    [obj |-> [_api_key |-> api_key,
              _command |-> PyNone,
              _data |-> PyNone,
              _headers |-> [Accept |-> "application/json; charset=UTF-8",
                            user_key |-> api_key]],
     outcome |-> IF api_key = PyNone
                 THEN Raise("ValueError", "You must set an API key.")
                 ELSE Return(PyNone)]

\* @Singleton: APIClient(api_key) constructs the instance the first time it
\* succeeds and hands the same instance back afterwards, whatever the argument
Singleton(sing, c, api_key) ==
    IF sing THEN [singleton |-> TRUE, client |-> c, outcome |-> Return(PyNone)]
    ELSE LET made == APIClientInit(api_key) IN
         IF made.outcome.kind = "raise"
         THEN [singleton |-> FALSE, client |-> c, outcome |-> made.outcome]
         ELSE [singleton |-> TRUE, client |-> made.obj, outcome |-> made.outcome]

\* APIClient.__str__
ClientStr(c) == V3_ENDPOINT \o Format(c._command)

\* (a variant that leaves out the terminator)
CallBody_NoTerminator(data) == Join(data, "; ")

\* the body call() builds from its data argument (a list of clauses, or {})
CallBody(data) ==
    IF Len(data) > 0 THEN Join(data, "; ") \o ";" ELSE ""

\* (a variant that sends the request again)
Post_Retry(url, data, headers) ==
    LET request == [url |-> url, data |-> data, headers |-> headers,
                    allow_redirects |-> FALSE]
    IN <<request, request>>

\* requests.post(base_url, data=..., headers=..., allow_redirects=False)
Post(url, data, headers) ==
    <<[url |-> url, data |-> data, headers |-> headers, allow_redirects |-> FALSE]>>

\* APIClient.call: the fields are stored and the POST is made before
\* errors.check can raise
call(c, command, data, reply) ==
    LET c1 == [c EXCEPT !._command = command]
        base_url == ClientStr(c1)
        c2 == [c1 EXCEPT !._data = PyStr(CallBody(data))]
    IN [client |-> c2,
        called |-> <<[command |-> command, data |-> data]>>,
        posts |-> Post(base_url, c2._data.s, c2._headers),
        outcome |-> IF ErrorsCheck(reply)
                    THEN Raise("APIError", "remote error")
                    ELSE Return(APIResponse(reply.text))]

----------------------------------------------------------------------------
(* APIObject *)

\* APIObject.__init__ (cls is the derived class of the instance)
APIObjectInit(cls) == [cls |-> cls, _command |-> PyNone, _id |-> PyNone]

\* hash() of an id: CPython hashes a small int to itself, except -1 to -2;
\* None hashes to one fixed value that no small int hashes to
HashNone == 2 ^ 30
PyHash(x) ==
    IF x.t = "None" THEN HashNone
    ELSE IF x.n = -1 THEN -2 ELSE x.n

\* APIObject.__hash__
Hash(self) == PyHash(self._id)

\* APIObject.__eq__
Eq(self, other) == Hash(self) = Hash(other)

\* APIObject.__ne__
Ne(self, other) == ~Eq(self, other)

\* the fields argument of find(): a list is joined by commas
FieldsText(fields) ==
    IF fields.t = "list" THEN Join(fields.items, ",") ELSE Format(fields)

\* (a variant that tests the id for truth, as the string options are tested)
EntityIdClause_Truthy(entity_id) ==
    IF entity_id # PyNone /\ entity_id.n # 0
    THEN <<"where id = " \o Format(entity_id)>>
    ELSE <<>>

EntityIdClause(entity_id) ==
    IF entity_id # PyNone
    THEN <<"where id = " \o Format(entity_id)>>
    ELSE <<>>

\* (a variant that does not clamp)
LimitValue_NoClamp(limit) == limit

\* the value find() puts in the limit clause
LimitValue(limit) == IF limit > MAX_LIMIT THEN MAX_LIMIT ELSE limit

LimitClause(limit) ==
    IF limit # 0 THEN <<"limit " \o ToString(LimitValue(limit))>> ELSE <<>>

\* what find() prints
FindPrinted(a) ==
    IF a.limit # 0 /\ a.limit > MAX_LIMIT
    THEN <<"Limit (" \o ToString(a.limit) \o ") set to maximum allowed (500).">>
    ELSE <<>>

\* (a variant that appends sort before limit)
FindData_SortFirst(a) ==
    <<"fields " \o FieldsText(a.fields)>>
    \o (IF a.exclude # "" THEN <<"exclude " \o a.exclude>> ELSE <<>>)
    \o (IF a.search # "" THEN <<"search \"" \o a.search \o "\"">> ELSE <<>>)
    \o EntityIdClause(a.entity_id)
    \o (IF a.name # "" THEN <<"where name = \"" \o a.name \o "\"">> ELSE <<>>)
    \o (IF a.slug # "" THEN <<"where slug = \"" \o a.slug \o "\"">> ELSE <<>>)
    \o (IF a.filters # "" THEN <<a.filters>> ELSE <<>>)
    \o (IF a.sort # "" THEN <<"sort " \o a.sort>> ELSE <<>>)
    \o LimitClause(a.limit)

\* the clause list find() hands to call()
FindData(a) ==
    <<"fields " \o FieldsText(a.fields)>>
    \o (IF a.exclude # "" THEN <<"exclude " \o a.exclude>> ELSE <<>>)
    \o (IF a.search # "" THEN <<"search \"" \o a.search \o "\"">> ELSE <<>>)
    \o EntityIdClause(a.entity_id)
    \o (IF a.name # "" THEN <<"where name = \"" \o a.name \o "\"">> ELSE <<>>)
    \o (IF a.slug # "" THEN <<"where slug = \"" \o a.slug \o "\"">> ELSE <<>>)
    \o (IF a.filters # "" THEN <<a.filters>> ELSE <<>>)
    \o LimitClause(a.limit)
    \o (IF a.sort # "" THEN <<"sort " \o a.sort>> ELSE <<>>)

Effect(self, sing, c, called, posts, printed, outcome) ==
    [self |-> self, singleton |-> sing, client |-> c, called |-> called,
     posts |-> posts, printed |-> printed, outcome |-> outcome]

\* find() from the assignment of _command on
FindBody(self, sing, c, a, one, reply) ==
    LET self1 == [self EXCEPT !._command = PyStr(a.entity.s \o "/")]
        inst == Singleton(sing, c, PyNone)
    IN IF inst.outcome.kind = "raise"
       THEN Effect(self1, inst.singleton, inst.client, <<>>, <<>>, FindPrinted(a),
                   inst.outcome)
       ELSE LET query == call(inst.client, self1._command, FindData(a), reply) IN
            Effect(self1, TRUE, query.client, query.called, query.posts,
                   FindPrinted(a),
                   IF query.outcome.kind = "raise" THEN query.outcome
                   ELSE IF one THEN as_single_result(query.outcome.value)
                   ELSE as_collection(query.outcome.value))

\* (a variant that does not check for a missing entity)
find_NoEntityCheck(self, sing, c, a, one, reply) ==
    FindBody(self, sing, c, [a EXCEPT !.entity = PyStr(Format(a.entity))], one, reply)

\* APIObject.find
find(self, sing, c, a, one, reply) ==
    IF a.entity = PyNone
    THEN Effect(self, sing, c, <<>>, <<>>, <<>>,
                Raise("ValueError",
                      "Plase specify entity (\"game\", \"platform\", etc)"))
    ELSE FindBody(self, sing, c, a, one, reply)

\* APIObject.find_one
find_one(self, sing, c, kwargs, reply) == find(self, sing, c, kwargs, TRUE, reply)

\* APIObject.meta: None + '/meta' is a TypeError; data is the empty dict
meta(self, sing, c, reply) ==
    IF self._command = PyNone
    THEN Effect(self, sing, c, <<>>, <<>>, <<>>,
                Raise("TypeError", "unsupported operand type(s) for +"))
    ELSE LET command == PyStr(self._command.s \o "/meta")
             inst == Singleton(sing, c, PyNone)
         IN IF inst.outcome.kind = "raise"
            THEN Effect(self, inst.singleton, inst.client, <<>>, <<>>, <<>>,
                        inst.outcome)
            ELSE LET query == call(inst.client, command, <<>>, reply) IN
                 Effect(self, TRUE, query.client, query.called, query.posts, <<>>,
                        IF query.outcome.kind = "raise" THEN query.outcome
                        ELSE as_collection(query.outcome.value))

----------------------------------------------------------------------------
(* The inputs the calls are made with *)

Objects == {"a", "b"}
ObjClass == [a |-> "Game", b |-> "Platform"]
Ids == (0..MaxId) \cup {-1}

ApiKeys == {PyNone, PyStr("key1"), PyStr("key2")}
Entities == {PyStr("game"), PyStr("platform")}
FieldsChoices == {PyStr("*"), PyStr(""), PyList(<<"id", "name">>)}
EntityIds == {PyNone, PyInt(0), PyInt(7)}
Limits == {0, 1} \cup (MAX_LIMIT .. MAX_LIMIT + MaxOver)

\* find() with nothing but the entity given: the defaults of its signature
Defaults(entity) ==
    [entity |-> entity, fields |-> PyStr("*"), exclude |-> "", search |-> "",
     entity_id |-> PyNone, name |-> "", slug |-> "", filters |-> "",
     limit |-> 0, sort |-> ""]

\* every combination of the options, for one entity
AllOptions ==
    [entity : {PyStr("game")}, fields : FieldsChoices,
     exclude : {"", "summary"}, search : {"", "zelda"},
     entity_id : EntityIds, name : {"", "Doom"}, slug : {"", "doom"},
     filters : {"", "where rating > 75"}, limit : Limits,
     sort : {"", "rating desc"}]

\* the options of the calls mixed with the other operations
SomeOptions ==
    { [Defaults(e) EXCEPT !.search = s] : e \in Entities, s \in {"", "zelda"} }
    \cup {Defaults(PyNone)}

\* the replies of the remote side
Replies ==
    { [status |-> 200, text |-> Records(n)] : n \in 0..MaxResults }
    \cup { [status |-> 200, text |-> Record(1)],
           [status |-> 200, text |-> ErrorPayload],
           [status |-> 401, text |-> Records(0)] }
CallReplies == { [status |-> 200, text |-> Records(1)],
                 [status |-> 401, text |-> Records(0)] }
NoReply == [status |-> 0, text |-> JNull]

Commands == {PyStr("game/"), PyStr("platform/meta")}
Clauses == {"fields *", "limit 1"}
ClauseLists == UNION { [1..n -> Clauses] : n \in 0..MaxClauses }

----------------------------------------------------------------------------
(* The state machine *)

NoClient == APIClientInit(PyNone).obj
NoCall ==
    [op |-> "none", obj |-> "-", args |-> <<>>, one |-> FALSE, called |-> <<>>,
     posts |-> <<>>, printed |-> <<>>, reply |-> NoReply, outcome |-> Return(PyNone)]

\* nothing constructed yet but the entity objects
Fresh ==
    /\ singleton = FALSE
    /\ client = NoClient
    /\ objs = [o \in Objects |-> APIObjectInit(ObjClass[o])]
    /\ sent = <<>>
    /\ last = NoCall

Init == Fresh /\ options = Defaults(PyStr("game"))

\* the request last on the wire after a call that made `posts`
Wire(posts) == IF posts = <<>> THEN sent ELSE <<posts[Len(posts)]>>

\* the reply a call consumed, if it went to the wire at all
Consumed(posts, reply) == IF posts = <<>> THEN NoReply ELSE reply

Apply(op, o, args, one, reply, eff) ==
    /\ singleton' = eff.singleton
    /\ client' = eff.client
    /\ objs' = [objs EXCEPT ![o] = eff.self]
    /\ sent' = Wire(eff.posts)
    /\ last' = [op |-> op, obj |-> o, args |-> args, one |-> one,
                called |-> eff.called, posts |-> eff.posts, printed |-> eff.printed,
                reply |-> Consumed(eff.posts, reply), outcome |-> eff.outcome]
    /\ UNCHANGED options

\* APIClient(api_key)
NewClient(api_key) ==
    LET inst == Singleton(singleton, client, api_key) IN
    /\ singleton' = inst.singleton
    /\ client' = inst.client
    /\ last' = [NoCall EXCEPT !.op = "APIClient",
                              !.args = [api_key |-> api_key, existed |-> singleton],
                              !.outcome = inst.outcome]
    /\ UNCHANGED <<objs, sent, options>>

\* APIClient().call(command, data)
Call(command, data, reply) ==
    LET inst == Singleton(singleton, client, PyNone) IN
    IF inst.outcome.kind = "raise"
    THEN /\ last' = [NoCall EXCEPT !.op = "call",
                                   !.args = [command |-> command, data |-> data],
                                   !.outcome = inst.outcome]
         /\ UNCHANGED <<singleton, client, objs, sent, options>>
    ELSE LET r == call(inst.client, command, data, reply) IN
         /\ client' = r.client
         /\ sent' = Wire(r.posts)
         /\ last' = [NoCall EXCEPT !.op = "call",
                                   !.args = [command |-> command, data |-> data],
                                   !.called = r.called,
                                   !.posts = r.posts,
                                   !.reply = Consumed(r.posts, reply),
                                   !.outcome = r.outcome]
         /\ UNCHANGED <<singleton, objs, options>>

\* o.find(**a, one=one)
Find(o, a, one, reply) ==
    Apply("find", o, a, one, reply, find(objs[o], singleton, client, a, one, reply))

\* o.find_one(**kwargs)
FindOne(o, kwargs, reply) ==
    Apply("find_one", o, kwargs, TRUE, reply,
          find_one(objs[o], singleton, client, kwargs, reply))

\* o.meta()
Meta(o, reply) ==
    Apply("meta", o, <<>>, FALSE, reply, meta(objs[o], singleton, client, reply))

\* a derived entity class fills in the identifier of its instance
SetId(o, n) ==
    /\ objs' = [objs EXCEPT ![o]._id = PyInt(n)]
    /\ last' = [NoCall EXCEPT !.op = "set_id", !.obj = o, !.args = [id |-> n]]
    /\ UNCHANGED <<singleton, client, sent, options>>

\* x == y and x != y
Compare(x, y) ==
    /\ last' = [NoCall EXCEPT !.op = "compare", !.obj = x, !.args = [other |-> y],
                              !.outcome = Return([eq |-> Eq(objs[x], objs[y]),
                                                  ne |-> Ne(objs[x], objs[y])])]
    /\ UNCHANGED <<singleton, client, objs, sent, options>>

\* the client and the queries
Next ==
    \/ \E k \in ApiKeys : NewClient(k)
    \/ \E c \in Commands, d \in ClauseLists, r \in CallReplies : Call(c, d, r)
    \/ \E o \in Objects, a \in SomeOptions, one \in BOOLEAN, r \in Replies :
          Find(o, a, one, r)
    \/ \E o \in Objects, a \in SomeOptions, r \in Replies : FindOne(o, a, r)
    \/ \E o \in Objects, r \in Replies : Meta(o, r)

Spec == Init /\ [][Next]_vars

\* the query builder over every combination of its options
\* (the calling program holds one combination ready and passes it)
InitFind == Fresh /\ options \in AllOptions

NextFind ==
    \/ NewClient(PyStr("key1"))
    \/ \E one \in BOOLEAN : Find("a", options, one, [status |-> 200, text |-> Records(1)])

SpecFind == InitFind /\ [][NextFind]_vars

\* entities that carry ids, compared
NextEq ==
    \/ \E o \in Objects, n \in Ids : SetId(o, n)
    \/ \E x \in Objects, y \in Objects : Compare(x, y)

SpecEq == Init /\ [][NextEq]_vars

----------------------------------------------------------------------------
(* Properties *)

\* a find()/find_one() that got as far as APIClient.call
Queried == last.op \in {"find", "find_one"} /\ last.called # <<>>
QueryData == last.called[1].data

\* the nine clause slots of a query in their fixed order, each with whether
\* its source value is set
ClauseSlots(a) ==
    << [set |-> TRUE, text |-> "fields " \o
            (IF a.fields.t = "list" THEN Join(a.fields.items, ",") ELSE a.fields.s)],
       [set |-> a.exclude # "", text |-> "exclude " \o a.exclude],
       [set |-> a.search # "", text |-> "search \"" \o a.search \o "\""],
       [set |-> a.entity_id # PyNone, text |-> "where id = " \o Format(a.entity_id)],
       [set |-> a.name # "", text |-> "where name = \"" \o a.name \o "\""],
       [set |-> a.slug # "", text |-> "where slug = \"" \o a.slug \o "\""],
       [set |-> a.filters # "", text |-> a.filters],
       [set |-> a.limit # 0, text |-> "limit " \o
            ToString(IF a.limit > 500 THEN 500 ELSE a.limit)],
       [set |-> a.sort # "", text |-> "sort " \o a.sort] >>
IsSet(slot) == slot.set
SetSlots(a) == SelectSeq(ClauseSlots(a), IsSet)

\* C1: the clause list find() passes to the client is the fixed order
\* [fields, exclude, search, where id, where name, where slug, filters, limit,
\* sort] with exactly the clauses of the empty/zero/unset sources left out:
\* fields is first and always there, and no clause appears twice.
C1_ClauseOrder ==
    Queried =>
        /\ Len(QueryData) = Len(SetSlots(last.args))
        /\ \A i \in 1..Len(QueryData) : QueryData[i] = SetSlots(last.args)[i].text
        /\ QueryData[1] = ClauseSlots(last.args)[1].text
        /\ \A i, k \in 1..Len(QueryData) : i # k => QueryData[i] # QueryData[k]

C1_Witness ==
    /\ Queried
    /\ Len(QueryData) = 9
    /\ last.args.limit > 500
    /\ last.args.entity_id = PyInt(0)

InData(text) == \E i \in 1..Len(QueryData) : QueryData[i] = text
LimitTexts == { "limit " \o ToString(n) : n \in 0 .. MAX_LIMIT + MaxOver }

\* C3: limit = 0 gives no limit clause and no warning; 1 <= limit <= 500
\* gives 'limit <limit>' unchanged and no warning; limit > 500 gives exactly
\* 'limit 500' and exactly one warning, and the call goes on to the client and
\* returns; no emitted limit clause carries a number above 500.
C3_LimitClamp ==
    (last.op \in {"find", "find_one"} /\ last.args.entity # PyNone) =>
        LET l == last.args.limit IN
        /\ l <= 500 => last.printed = <<>>
        /\ l > 500 => Len(last.printed) = 1
        /\ (l > 500 /\ singleton) =>
              /\ Len(last.called) = 1
              /\ Len(last.posts) = 1
              /\ last.outcome.kind = "return"
        /\ Queried =>
              /\ l = 0 => \A t \in LimitTexts : ~InData(t)
              /\ l # 0 =>
                    \A t \in LimitTexts :
                        InData(t) <=> t = "limit " \o ToString(IF l > 500 THEN 500 ELSE l)
              /\ \A n \in 501 .. MAX_LIMIT + MaxOver : ~InData("limit " \o ToString(n))

C3_Witness ==
    /\ Queried
    /\ last.args.limit = 501
    /\ InData("limit 500")
    /\ Len(last.printed) = 1
    /\ last.outcome.kind = "return"

\* C4: find() emits 'where id = <entity_id>' exactly when entity_id was
\* supplied: entity_id = 0 gives 'where id = 0', entity_id unset gives no
\* 'where id' clause.
C4_WhereId ==
    Queried =>
        \A i \in EntityIds \ {PyNone} :
            InData("where id = " \o ToString(i.n)) <=> last.args.entity_id = i

C4_Witness ==
    /\ Queried
    /\ last.args.entity_id = PyInt(0)
    /\ InData("where id = 0")

\* a call made in single-result mode whose reply passed errors.check
SingleResult ==
    /\ last.op \in {"find", "find_one"}
    /\ last.one
    /\ last.posts # <<>>
    /\ ~ErrorsCheck(last.reply)

\* C2: as_single_result() on a top-level array returns the 'no result' value
\* for length 0, the sole element for length 1, and fails with an APIError
\* that reports the count n for length n > 1; a top-level value that is not
\* an array is returned as parsed.
C2_SingleResult ==
    SingleResult =>
        LET text == last.reply.text IN
        IF text.j = "array" THEN
            CASE Len(text.items) = 0 -> last.outcome = Return(PyNone)
              [] Len(text.items) = 1 ->
                    last.outcome = Return(Namespace([id |-> PyInt(text.items[1].fields.id.n)]))
              [] OTHER ->
                    /\ last.outcome.kind = "raise"
                    /\ last.outcome.exc = "APIError"
                    /\ last.outcome.msg =
                          "Expected single result, found " \o ToString(Len(text.items))
        ELSE last.outcome = Return(Namespace([id |-> PyInt(text.fields.id.n)]))

C2_Witness ==
    /\ SingleResult
    /\ last.reply.text.j = "array"
    /\ Len(last.reply.text.items) = 2
    /\ last.outcome = Raise("APIError", "Expected single result, found 2")

\* the body of a clause list: every clause but the last followed by "; ",
\* the last by ";"
RECURSIVE Terminated(_)
Terminated(q) ==
    IF Len(q) = 1 THEN q[1] \o ";" ELSE q[1] \o "; " \o Terminated(Tail(q))

\* C6: call(command, clauses) sends the clauses joined in their order by
\* '; ' with one trailing ';', or the empty string for no clauses, to the
\* endpoint root followed by exactly the command, and the client's data field
\* is the body that was sent.
C6_CallBody ==
    last.called # <<>> =>
        LET command == last.called[1].command
            data == last.called[1].data
            body == IF Len(data) = 0 THEN "" ELSE Terminated(data)
        IN /\ Len(last.posts) = 1
           /\ last.posts[1].data = body
           /\ last.posts[1].url = "https://api-v3.igdb.com/" \o command.s
           /\ client._data = PyStr(body)
           /\ client._command = command
           /\ sent = last.posts

C6_Witness ==
    /\ last.op = "call"
    /\ last.called # <<>>
    /\ last.called[1].data = <<"fields *", "limit 1">>
    /\ sent[1].data = "fields *; limit 1;"
    /\ sent[1].url = "https://api-v3.igdb.com/game/"

\* C7: constructing the client without an API key fails before any request
\* is made and leaves no instance behind; nothing is ever sent while there is
\* no instance, and no request ever goes out under a missing key.
C7_NoKey ==
    /\ (last.op = "APIClient" /\ last.args.api_key = PyNone /\ ~last.args.existed) =>
          /\ last.outcome = Raise("ValueError", "You must set an API key.")
          /\ last.posts = <<>>
          /\ ~singleton
    /\ ~singleton => sent = <<>>
    /\ singleton => client._api_key # PyNone
    /\ sent # <<>> => sent[1].headers.user_key # PyNone

C7_Witness ==
    /\ last.op \in {"find", "call"}
    /\ last.outcome = Raise("ValueError", "You must set an API key.")
    /\ ~singleton
    /\ sent = <<>>

\* C8: find() and find_one() without an entity fail with a parameter error
\* for that call only: no request, and the entity object, the client and the
\* wire are as they were before the call.
C8_NoEntity ==
    [][ (last'.op \in {"find", "find_one"} /\ last'.args.entity = PyNone) =>
            /\ last'.outcome.kind = "raise"
            /\ last'.outcome.exc = "ValueError"
            /\ last'.called = <<>>
            /\ last'.posts = <<>>
            /\ objs' = objs
            /\ client' = client
            /\ singleton' = singleton
            /\ sent' = sent ]_vars

C8_Witness ==
    /\ last.op = "find_one"
    /\ last.args.entity = PyNone
    /\ last.outcome.kind = "raise"
    /\ objs[last.obj]._command = PyStr("game/")
    /\ client._command = PyStr("game/")
    /\ sent # <<>>

\* C9: meta() sends exactly '<entity>/meta' for the object's entity, with an
\* empty body, in every state, also when no find() went before.
C9_MetaPath ==
    (last.op = "meta" /\ singleton) =>
        /\ Len(last.posts) = 1
        /\ last.posts[1].data = ""
        /\ \E e \in Entities :
              /\ last.posts[1].url = "https://api-v3.igdb.com/" \o e.s \o "/meta"
              /\ objs[last.obj]._command \in {PyNone, PyStr(e.s \o "/")}

\* one POST per invocation of call, and at most one invocation per operation
C10_OnePost ==
    /\ Len(last.posts) = Len(last.called)
    /\ Len(last.called) <= 1
    /\ (last.op = "call" /\ singleton) => Len(last.posts) = 1
    /\ (last.outcome.kind = "raise" /\ last.outcome.exc = "APIError") =>
          Len(last.posts) = 1
    /\ (last.op \in {"find", "find_one", "meta"} /\ last.outcome.kind = "return") =>
          Len(last.called) = 1
    /\ singleton => client._headers.user_key = client._api_key

\* a step of a constructed client keeps the instance, its key and its headers
C10_KeyKept ==
    singleton =>
        /\ singleton'
        /\ client'._api_key = client._api_key
        /\ client'._headers = client._headers

\* C10: every call() makes exactly one POST whatever its outcome (success,
\* remote error, single-result count error), never more; a
\* find()/find_one()/meta() that returns made exactly one call; and across
\* any sequence of calls the client's key and headers stay as constructed
\* while only the command and body fields change.
C10_OnePostKeyKept == []C10_OnePost /\ [][C10_KeyKept]_vars

C10_Witness ==
    /\ last.op = "APIClient"
    /\ last.args.api_key = PyStr("key2")
    /\ last.args.existed
    /\ client._api_key = PyStr("key1")
    /\ sent # <<>>
    /\ client._command # PyNone

\* C5: two entities of different classes with the same numeric id compare
\* unequal.
C5_DistinctKinds ==
    (/\ last.op = "compare"
     /\ objs[last.obj].cls # objs[last.args.other].cls
     /\ objs[last.obj]._id.t = "int"
     /\ objs[last.obj]._id = objs[last.args.other]._id) =>
        /\ ~last.outcome.value.eq
        /\ last.outcome.value.ne

====
